---- MODULE Spec2Model ----
(***************************************************************************)
(* Model of the Pi Cycle indicator program, 2-pi-cycle-indicator.cpp:      *)
(* main() parses its argument, loads the klines, runs price_projection and *)
(* add_calculated_fields, takes the most recent rows in reverse order,     *)
(* renders them with display_public and extrapolates with                  *)
(* prediction_target_step.                                                 *)
(*                                                                         *)
(* Numbers.  The program computes in IEEE doubles.  A double x is modelled *)
(* as the integer x * Scale (fixed point, three decimals).  Addition,      *)
(* subtraction and multiplication or division by a whole number are done   *)
(* on the integers; a product or quotient of two doubles and a square root *)
(* are rounded to the nearest representable value, as the hardware rounds  *)
(* to the nearest double.  Row indices are the code's zero-based indices:  *)
(* At(v, i) is v[i] of the C++ vector.                                     *)
(***************************************************************************)
EXTENDS Integers, Sequences, FiniteSets

VARIABLES
    pc,                      \* position in main()
    num_display_days,        \* main: int num_display_days
    argv1,                   \* main: argv[1] as main read it
    ticker,                  \* main: GeminiTicker ticker
    klines,                  \* main: std::vector<Kline> klines
    pi_data,                 \* main: std::vector<PiCycleData> pi_data
    pi_data_reversed,        \* main: std::vector<PiCycleData> pi_data_reversed
    row_colors,              \* display_public: row_color of every printed row
    divisors,                \* denominators of the divisions executed so far
    first_row_yearly_value,  \* global
    first_row_baseline,      \* global
    first_row_avg_price,     \* global
    first_row_step,          \* global
    average_top_steps,       \* prediction_target_step: printed average step
    predicted_price_2025,    \* prediction_target_step: printed estimate
    predicted_price_4w,      \* prediction_target_step: printed estimate
    days_until_2025,         \* prediction_target_step: long long days_until_2025
    exit_code,               \* return value of main(), -1 while running
    runs,                    \* number of times the engine has run in this process
    prev_klines,             \* input of the engine's previous run
    prev_pi_data,            \* rows returned by the engine's previous run
    seconds_until_2025,      \* prediction_target_step: end_2025_t - now_c
    table,                   \* binance.db: the rows of table klines, in rowid order
    latest,                  \* the kline most recently inserted for each date
    pro_pi_data,             \* 3-pi-cycle-pro, main: pi_data
    pro_row_colors,          \* 3-pi-cycle-pro, display_public: row_color of each row
    pro_first_row,           \* 3-pi-cycle-pro: the four first_row_ globals
    pro_printed              \* 3-pi-cycle-pro, prediction_target_step: values printed

vars == <<pc, num_display_days, argv1, ticker, klines, pi_data, pi_data_reversed, row_colors,
          divisors, first_row_yearly_value, first_row_baseline,
          first_row_avg_price, first_row_step, average_top_steps,
          predicted_price_2025, predicted_price_4w, days_until_2025, exit_code,
          runs, prev_klines, prev_pi_data, seconds_until_2025, table, latest,
          pro_pi_data, pro_row_colors, pro_first_row, pro_printed>>

-----------------------------------------------------------------------------
(* Fixed-point doubles *)

Scale == 1000

Abs(x) == IF x < 0 THEN -x ELSE x

Sign(x) == IF x < 0 THEN -1 ELSE 1

\* a / n for a whole number n > 0, rounded to nearest
RoundDiv(a, n) == Sign(a) * ((2 * Abs(a) + n) \div (2 * n))

\* the double product a * b
FMul(a, b) ==
    LET x  == Abs(a)
        y  == Abs(b)
        xh == x \div Scale
        xl == x % Scale
    IN  Sign(a) * Sign(b) * (xh * y + RoundDiv(xl * y, Scale))

\* the double quotient a / b, b # 0
FDiv(a, b) == Sign(a) * Sign(b) * RoundDiv(Abs(a) * Scale, Abs(b))

RECURSIVE ISqrtSearch(_, _, _)
ISqrtSearch(n, lo, hi) ==
    IF lo >= hi THEN lo
    ELSE LET mid == (lo + hi + 1) \div 2
         IN  IF mid * mid <= n THEN ISqrtSearch(n, mid, hi)
             ELSE ISqrtSearch(n, lo, mid - 1)

\* std::sqrt of a double x >= 0
FSqrt(x) ==
    LET n == x * Scale
        r == ISqrtSearch(n, 0, 46339)
    IN  IF n - r * r > r THEN r + 1 ELSE r

-----------------------------------------------------------------------------
(* Vectors and rows *)

At(v, i) == v[i + 1]

Indices(v) == 0 .. (Len(v) - 1)

\* struct PiCycleData with its default member initialisers
PiCycleData(date, price) ==
    [date |-> date, price |-> price, ma_365 |-> 0, std_365 |-> 0,
     ceiling |-> 0, floor |-> 0, median |-> 0, dynamic_step |-> 0,
     step |-> 0, change |-> 0, move |-> 0, offset |-> 0, weeks_52 |-> 0]

-----------------------------------------------------------------------------
(* price_projection *)

\* the window of the moving average and the standard deviation
WINDOW == 365

\* first index with a full window behind it
FULL_AT == 364

\* The loops below add up integers, so the order of the additions does not
\* change the sum: each is summed by halves, which keeps evaluation shallow.

\* for (j = lo; j <= hi; ++j) sum_price += klines[j].price
RECURSIVE SumPriceLoop(_, _, _)
SumPriceLoop(v, lo, hi) ==
    IF lo > hi THEN 0
    ELSE IF lo = hi THEN At(v, lo).price
    ELSE LET mid == (lo + hi) \div 2
         IN  SumPriceLoop(v, lo, mid) + SumPriceLoop(v, mid + 1, hi)

sum_price(v, i) == SumPriceLoop(v, i - FULL_AT, i)

ma_365_of(v, i) == RoundDiv(sum_price(v, i), WINDOW)

\* for (j = lo; j <= hi; ++j) sum_sq_diff += pow(klines[j].price - ma, 2)
RECURSIVE SumSqDiffLoop(_, _, _, _)
SumSqDiffLoop(v, lo, hi, ma) ==
    IF lo > hi THEN 0
    ELSE IF lo = hi THEN FMul(At(v, lo).price - ma, At(v, lo).price - ma)
    ELSE LET mid == (lo + hi) \div 2
         IN  SumSqDiffLoop(v, lo, mid, ma) + SumSqDiffLoop(v, mid + 1, hi, ma)

sum_sq_diff(v, i, ma) == SumSqDiffLoop(v, i - FULL_AT, i, ma)

\* mutant: the sample deviation, dividing by one less than the window
std_365_sample(v, i, ma) == FSqrt(RoundDiv(sum_sq_diff(v, i, ma), WINDOW - 1))

std_365_of(v, i, ma) == FSqrt(RoundDiv(sum_sq_diff(v, i, ma), WINDOW))

\* mutant: one deviation above the mean
ceiling_one_std(ma, std) == ma + std

\* mutant: the ceiling left at the mean
ceiling_at_mean(ma, std) == ma

ceiling_of(ma, std) == ma + (2 * std)

\* mutant: the floor two deviations under the mean
floor_below_mean(ma, std) == ma - (2 * std)

floor_of(ma, std) == ma

\* mutant: the median placed on the floor
median_at_floor(ceiling, floor) == floor

median_of(ceiling, floor) == RoundDiv(ceiling + floor, 2)

HasWindow(i) == i >= FULL_AT

\* mutant: a mean over the rows available so far, from the first row on
ProjectRowPartial(v, i) ==
    LET row == PiCycleData(At(v, i).date, At(v, i).price)
        lo  == IF i >= FULL_AT THEN i - FULL_AT ELSE 0
        ma  == RoundDiv(SumPriceLoop(v, lo, i), i - lo + 1)
        std == FSqrt(RoundDiv(SumSqDiffLoop(v, lo, i, ma), i - lo + 1))
        c   == ceiling_of(ma, std)
        f   == floor_of(ma, std)
    IN  [row EXCEPT !.ma_365 = ma, !.std_365 = std, !.ceiling = c,
                    !.floor = f, !.median = median_of(c, f)]

ProjectRow(v, i) ==
    LET row == PiCycleData(At(v, i).date, At(v, i).price)
    IN  IF HasWindow(i)
        THEN LET ma  == ma_365_of(v, i)
                 std == std_365_of(v, i, ma)
                 c   == ceiling_of(ma, std)
                 f   == floor_of(ma, std)
             IN  [row EXCEPT !.ma_365 = ma, !.std_365 = std, !.ceiling = c,
                             !.floor = f, !.median = median_of(c, f)]
        ELSE row

\* mutant: only the rows with a full window are returned
price_projection_complete(v) ==
    [k \in 1 .. (Len(v) - FULL_AT) |-> ProjectRow(v, k - 1 + FULL_AT)]

price_projection(v) == [k \in 1 .. Len(v) |-> ProjectRow(v, k - 1)]

-----------------------------------------------------------------------------
(* add_calculated_fields *)

lookback_days_for_step == 364

\* a division the program executes: which one, and its denominator
Division(op, by) == <<op, by>>

\* loop 1, one iteration: daily change and percentage move of row i >= 1
MoveGuard(prev) == prev.price # 0

change_of(cur, prev) == cur.price - prev.price

\* mutant: the move as a fraction, not a percentage
move_fraction(cur, prev) == FDiv(cur.price - prev.price, prev.price)

move_of(cur, prev) == FDiv(cur.price - prev.price, prev.price) * 100

\* mutant: the change measured to the next day where there is one
ChangeRowAhead(v, i) ==
    LET cur  == At(v, i)
        prev == At(v, i - 1)
    IN  [cur EXCEPT !.change = IF i + 1 < Len(v)
                               THEN change_of(At(v, i + 1), cur)
                               ELSE change_of(cur, prev),
                    !.move = IF MoveGuard(prev) THEN move_of(cur, prev) ELSE @]

ChangeRow(v, i) ==
    LET cur  == At(v, i)
        prev == At(v, i - 1)
    IN  [cur EXCEPT !.change = change_of(cur, prev),
                    !.move = IF MoveGuard(prev) THEN move_of(cur, prev) ELSE @]

ChangeLoop(v) == [k \in 1 .. Len(v) |-> IF k - 1 >= 1 THEN ChangeRow(v, k - 1) ELSE v[k]]

ChangeDivisions(v) ==
    {Division("move", At(v, i - 1).price) :
        i \in {x \in Indices(v) : x >= 1 /\ MoveGuard(At(v, x - 1))}}

\* loop 2, one iteration: dynamic step of row i from the stored changes
\* for (j = lo; j <= hi; ++j) sum_daily_diff += pi_data[i - j].change
RECURSIVE SumDailyDiffLoop(_, _, _, _)
SumDailyDiffLoop(v, i, lo, hi) ==
    IF lo > hi THEN 0
    ELSE IF lo = hi THEN At(v, i - lo).change
    ELSE LET mid == (lo + hi) \div 2
         IN  SumDailyDiffLoop(v, i, lo, mid) + SumDailyDiffLoop(v, i, mid + 1, hi)

\* mutant: the step computed one row early, over the first row's change
StepGuardEarly(i) == i >= lookback_days_for_step - 1

StepGuard(i) == i >= lookback_days_for_step

\* mutant: one change fewer summed
dynamic_step_short(v, i) ==
    RoundDiv(SumDailyDiffLoop(v, i, 0, lookback_days_for_step - 2), lookback_days_for_step)

dynamic_step_of(v, i) ==
    RoundDiv(SumDailyDiffLoop(v, i, 0, lookback_days_for_step - 1), lookback_days_for_step)

StepRow(v, i) ==
    LET ds == IF StepGuard(i) THEN dynamic_step_of(v, i) ELSE At(v, i).dynamic_step
    IN  [At(v, i) EXCEPT !.dynamic_step = ds, !.step = ds]

StepLoop(v) == [k \in 1 .. Len(v) |-> StepRow(v, k - 1)]

\* loop 3, one iteration: offset of row i from its median
OffsetGuard(row) == row.median # 0

\* mutant: the offset measured from the floor
offset_from_floor(row) == FDiv(row.price - row.floor, row.floor) * 100

\* mutant: the offset measured from the baseline of the last report
offset_from_baseline(row) ==
    IF first_row_baseline # 0
    THEN FDiv(row.price - first_row_baseline, first_row_baseline) * 100
    ELSE FDiv(row.price - row.median, row.median) * 100

offset_of(row) == FDiv(row.price - row.median, row.median) * 100

\* mutant: the offset loop also clears the deviation of a row it rewrites
OffsetRowClearing(row) ==
    [row EXCEPT !.offset = IF OffsetGuard(row) THEN offset_of(row) ELSE @,
                !.std_365 = IF OffsetGuard(row) THEN 0 ELSE @]

OffsetRow(row) == [row EXCEPT !.offset = IF OffsetGuard(row) THEN offset_of(row) ELSE @]

OffsetLoop(v) == [k \in 1 .. Len(v) |-> OffsetRow(v[k])]

OffsetDivisions(v) ==
    {Division("offset", At(v, i).median) : i \in {x \in Indices(v) : OffsetGuard(At(v, x))}}

\* loop 4, one iteration: 364-day percentage change of row i
YearGuard(v, i) == i >= 364 /\ At(v, i - 364).price # 0

weeks_52_of(cur, old) == FDiv(cur.price - old.price, old.price) * 100

\* mutant: the price 365 days back
YearRow365(v, i) ==
    [At(v, i) EXCEPT !.weeks_52 = IF i >= 365 /\ At(v, i - 365).price # 0
                                  THEN weeks_52_of(At(v, i), At(v, i - 365))
                                  ELSE @]

YearRow(v, i) ==
    [At(v, i) EXCEPT !.weeks_52 = IF YearGuard(v, i)
                                  THEN weeks_52_of(At(v, i), At(v, i - 364))
                                  ELSE @]

YearLoop(v) == [k \in 1 .. Len(v) |-> YearRow(v, k - 1)]

YearDivisions(v) ==
    {Division("weeks_52", At(v, i - 364).price) : i \in {x \in Indices(v) : YearGuard(v, x)}}

add_calculated_fields(v) == YearLoop(OffsetLoop(StepLoop(ChangeLoop(v))))

add_calculated_fields_divisions(v) ==
    ChangeDivisions(v) \cup OffsetDivisions(v) \cup YearDivisions(v)

-----------------------------------------------------------------------------
(* display_public: the colour of a row *)

Colors ==
    {"COLOR_BRIGHT_GREEN", "COLOR_GREEN", "COLOR_DARK_GREEN", "COLOR_YELLOW_GREEN",
     "COLOR_YELLOW", "COLOR_YELLOW_RED", "COLOR_DARK_RED", "COLOR_RED",
     "COLOR_BRIGHT_RED"}

\* the double constants 0.02, 0.575 and 0.29
NEAR_MEDIAN == 20

BRIGHT_AT == 575

PLAIN_AT == 290

median_threshold_of(row) == FMul(row.median, NEAR_MEDIAN)

\* mutant: a row exactly on the 2% line is no longer near the median
NearMedianStrict(row) == Abs(row.price - row.median) < median_threshold_of(row)

NearMedian(row) == Abs(row.price - row.median) <= median_threshold_of(row)

\* mutant: a price equal to the median counted as above it
near_color_from_above(row) ==
    IF row.price >= row.median THEN "COLOR_YELLOW_GREEN"
    ELSE "COLOR_YELLOW_RED"

near_color(row) ==
    IF row.price > row.median THEN "COLOR_YELLOW_GREEN"
    ELSE IF row.price < row.median THEN "COLOR_YELLOW_RED"
    ELSE "COLOR_YELLOW"

range_above_of(row) == row.ceiling - row.median

\* mutant: an empty range above counts as the full distance
percentage_above_full(row) ==
    IF range_above_of(row) > 0
    THEN FDiv(row.price - row.median, range_above_of(row))
    ELSE Scale

percentage_above_of(row) ==
    IF range_above_of(row) > 0
    THEN FDiv(row.price - row.median, range_above_of(row))
    ELSE 0

\* mutant: the two upper colours exchanged
above_color_exchanged(row) ==
    IF percentage_above_of(row) >= BRIGHT_AT THEN "COLOR_GREEN"
    ELSE IF percentage_above_of(row) >= PLAIN_AT THEN "COLOR_BRIGHT_GREEN"
    ELSE "COLOR_DARK_GREEN"

above_color(row) ==
    IF percentage_above_of(row) >= BRIGHT_AT THEN "COLOR_BRIGHT_GREEN"
    ELSE IF percentage_above_of(row) >= PLAIN_AT THEN "COLOR_GREEN"
    ELSE "COLOR_DARK_GREEN"

range_below_of(row) == row.median - row.floor

percentage_below_of(row) ==
    IF range_below_of(row) > 0
    THEN FDiv(row.median - row.price, range_below_of(row))
    ELSE 0

below_color_high_bar(row) ==
    IF percentage_below_of(row) >= 600 THEN "COLOR_BRIGHT_RED"
    ELSE IF percentage_below_of(row) >= 300 THEN "COLOR_RED"
    ELSE "COLOR_DARK_RED"

below_color(row) ==
    IF percentage_below_of(row) >= BRIGHT_AT THEN "COLOR_BRIGHT_RED"
    ELSE IF percentage_below_of(row) >= PLAIN_AT THEN "COLOR_RED"
    ELSE "COLOR_DARK_RED"

row_color_of(row) ==
    IF NearMedian(row) THEN near_color(row)
    ELSE IF row.price >= row.median THEN above_color(row)
    ELSE below_color(row)

\* the division executed while colouring a row, if any
row_color_divisions(row) ==
    IF NearMedian(row) THEN {}
    ELSE IF row.price >= row.median
         THEN IF range_above_of(row) > 0
              THEN {Division("percentage_above", range_above_of(row))} ELSE {}
         ELSE IF range_below_of(row) > 0
              THEN {Division("percentage_below", range_below_of(row))} ELSE {}

-----------------------------------------------------------------------------
(* prediction_target_step *)

RANGE == 30

SECONDS_PER_DAY == 60 * 60 * 24

\* C++ integer division, which truncates toward zero
TruncDiv(a, b) == Sign(a) * Sign(b) * (Abs(a) \div Abs(b))

Min(a, b) == IF a < b THEN a ELSE b

RECURSIVE SumTopSteps(_, _, _)
SumTopSteps(v, i, n) ==
    IF i >= n THEN 0 ELSE At(v, i).step + SumTopSteps(v, i + 1, n)

count_top_steps_of(v) == Min(RANGE, Len(v))

average_over_range(v) ==
    IF count_top_steps_of(v) > 0
    THEN RoundDiv(SumTopSteps(v, 0, count_top_steps_of(v)), RANGE)
    ELSE 0

average_top_steps_of(v) ==
    IF count_top_steps_of(v) > 0
    THEN RoundDiv(SumTopSteps(v, 0, count_top_steps_of(v)), count_top_steps_of(v))
    ELSE 0

\* mutant: the day count rounded down
days_until_2025_floor(seconds) == seconds \div SECONDS_PER_DAY

days_until_2025_of(seconds) == TruncDiv(seconds, SECONDS_PER_DAY)

predicted_price_2025_of(baseline, avg, seconds) ==
    baseline + (avg * days_until_2025_of(seconds))

predicted_price_4w_28_days(baseline, avg) == baseline + (avg * 28)

predicted_price_4w_of(baseline, avg) == baseline + (avg * RANGE)

-----------------------------------------------------------------------------
(* 3-pi-cycle-pro.cpp: the engine, the colouring and the estimates of the
   combined program, translated from its own copy of the functions *)

\* struct PiCycleData of the combined program
pro_PiCycleData(date, price) ==
    [date |-> date, price |-> price, ma_365 |-> 0, std_365 |-> 0,
     ceiling |-> 0, floor |-> 0, median |-> 0, dynamic_step |-> 0,
     step |-> 0, change |-> 0, move |-> 0, offset |-> 0, weeks_52 |-> 0]

pro_WINDOW == 365

pro_FULL_AT == 364

\* mutant: the floor two deviations under the mean
pro_floor_below_mean(ma, std) == ma - (2 * std)

pro_floor_of(ma, std) == ma

\* price_projection of the combined program, lines 651-678
pro_price_projection(points) ==
    LET
        RECURSIVE pro_SumPriceLoop(_, _, _)
        pro_SumPriceLoop(v, lo, hi) ==
            IF lo > hi THEN 0
            ELSE IF lo = hi THEN At(v, lo).price
            ELSE LET mid == (lo + hi) \div 2
                 IN  pro_SumPriceLoop(v, lo, mid) + pro_SumPriceLoop(v, mid + 1, hi)
        pro_sum_price(v, i) == pro_SumPriceLoop(v, i - pro_FULL_AT, i)
        pro_ma_365_of(v, i) == RoundDiv(pro_sum_price(v, i), pro_WINDOW)
        RECURSIVE pro_SumSqDiffLoop(_, _, _, _)
        pro_SumSqDiffLoop(v, lo, hi, ma) ==
            IF lo > hi THEN 0
            ELSE IF lo = hi THEN FMul(At(v, lo).price - ma, At(v, lo).price - ma)
            ELSE LET mid == (lo + hi) \div 2
                 IN  pro_SumSqDiffLoop(v, lo, mid, ma) + pro_SumSqDiffLoop(v, mid + 1, hi, ma)
        pro_sum_sq_diff(v, i, ma) == pro_SumSqDiffLoop(v, i - pro_FULL_AT, i, ma)
        pro_std_365_of(v, i, ma) == FSqrt(RoundDiv(pro_sum_sq_diff(v, i, ma), pro_WINDOW))
        pro_ceiling_of(ma, std) == ma + (2 * std)
        pro_median_of(ceiling, floor) == RoundDiv(ceiling + floor, 2)
        pro_HasWindow(i) == i >= pro_FULL_AT
        pro_ProjectRow(v, i) ==
            LET row == pro_PiCycleData(At(v, i).date, At(v, i).price)
            IN  IF pro_HasWindow(i)
                THEN LET ma  == pro_ma_365_of(v, i)
                         std == pro_std_365_of(v, i, ma)
                         c   == pro_ceiling_of(ma, std)
                         f   == pro_floor_of(ma, std)
                     IN  [row EXCEPT !.ma_365 = ma, !.std_365 = std, !.ceiling = c,
                                     !.floor = f, !.median = pro_median_of(c, f)]
                ELSE row
    IN  [k \in 1 .. Len(points) |-> pro_ProjectRow(points, k - 1)]

pro_lookback_days_for_step == 364

\* add_calculated_fields of the combined program, lines 680-720: its four
\* loops in turn
pro_add_calculated_fields(data) ==
    LET
        pro_MoveGuard(prev) == prev.price # 0
        pro_change_of(cur, prev) == cur.price - prev.price
        pro_move_of(cur, prev) == FDiv(cur.price - prev.price, prev.price) * 100
        pro_ChangeRow(v, i) ==
            LET cur  == At(v, i)
                prev == At(v, i - 1)
            IN  [cur EXCEPT !.change = pro_change_of(cur, prev),
                            !.move = IF pro_MoveGuard(prev) THEN pro_move_of(cur, prev) ELSE @]
        pro_ChangeLoop(v) == [k \in 1 .. Len(v) |-> IF k - 1 >= 1 THEN pro_ChangeRow(v, k - 1) ELSE v[k]]
        RECURSIVE pro_SumDailyDiffLoop(_, _, _, _)
        pro_SumDailyDiffLoop(v, i, lo, hi) ==
            IF lo > hi THEN 0
            ELSE IF lo = hi THEN At(v, i - lo).change
            ELSE LET mid == (lo + hi) \div 2
                 IN  pro_SumDailyDiffLoop(v, i, lo, mid) + pro_SumDailyDiffLoop(v, i, mid + 1, hi)
        pro_StepGuard(i) == i >= pro_lookback_days_for_step
        pro_dynamic_step_of(v, i) ==
            RoundDiv(pro_SumDailyDiffLoop(v, i, 0, pro_lookback_days_for_step - 1), pro_lookback_days_for_step)
        pro_StepRow(v, i) ==
            LET ds == IF pro_StepGuard(i) THEN pro_dynamic_step_of(v, i) ELSE At(v, i).dynamic_step
            IN  [At(v, i) EXCEPT !.dynamic_step = ds, !.step = ds]
        pro_StepLoop(v) == [k \in 1 .. Len(v) |-> pro_StepRow(v, k - 1)]
        pro_OffsetGuard(row) == row.median # 0
        pro_offset_of(row) == FDiv(row.price - row.median, row.median) * 100
        pro_OffsetRow(row) == [row EXCEPT !.offset = IF pro_OffsetGuard(row) THEN pro_offset_of(row) ELSE @]
        pro_OffsetLoop(v) == [k \in 1 .. Len(v) |-> pro_OffsetRow(v[k])]
        pro_YearGuard(v, i) == i >= 364 /\ At(v, i - 364).price # 0
        pro_weeks_52_of(cur, old) == FDiv(cur.price - old.price, old.price) * 100
        pro_YearRow(v, i) ==
            [At(v, i) EXCEPT !.weeks_52 = IF pro_YearGuard(v, i)
                                          THEN pro_weeks_52_of(At(v, i), At(v, i - 364))
                                          ELSE @]
        pro_YearLoop(v) == [k \in 1 .. Len(v) |-> pro_YearRow(v, k - 1)]
    IN  pro_YearLoop(pro_OffsetLoop(pro_StepLoop(pro_ChangeLoop(data))))

pro_NEAR_MEDIAN == 20

pro_BRIGHT_AT == 575

pro_PLAIN_AT == 290

\* the colour display_public of the combined program gives a row, lines
\* 788-809
pro_row_color_of(shown) ==
    LET
        pro_median_threshold_of(row) == FMul(row.median, pro_NEAR_MEDIAN)
        pro_NearMedian(row) == Abs(row.price - row.median) <= pro_median_threshold_of(row)
        pro_near_color(row) ==
            IF row.price > row.median THEN "COLOR_YELLOW_GREEN"
            ELSE IF row.price < row.median THEN "COLOR_YELLOW_RED"
            ELSE "COLOR_YELLOW"
        pro_range_above_of(row) == row.ceiling - row.median
        pro_percentage_above_of(row) ==
            IF pro_range_above_of(row) > 0
            THEN FDiv(row.price - row.median, pro_range_above_of(row))
            ELSE 0
        pro_above_color(row) ==
            IF pro_percentage_above_of(row) >= pro_BRIGHT_AT THEN "COLOR_BRIGHT_GREEN"
            ELSE IF pro_percentage_above_of(row) >= pro_PLAIN_AT THEN "COLOR_GREEN"
            ELSE "COLOR_DARK_GREEN"
        pro_range_below_of(row) == row.median - row.floor
        pro_percentage_below_of(row) ==
            IF pro_range_below_of(row) > 0
            THEN FDiv(row.median - row.price, pro_range_below_of(row))
            ELSE 0
        pro_below_color(row) ==
            IF pro_percentage_below_of(row) >= pro_BRIGHT_AT THEN "COLOR_BRIGHT_RED"
            ELSE IF pro_percentage_below_of(row) >= pro_PLAIN_AT THEN "COLOR_RED"
            ELSE "COLOR_DARK_RED"
    IN  IF pro_NearMedian(shown) THEN pro_near_color(shown)
        ELSE IF shown.price >= shown.median THEN pro_above_color(shown)
        ELSE pro_below_color(shown)

pro_RANGE == 30

pro_SECONDS_PER_DAY == 60 * 60 * 24

\* prediction_target_step of the combined program, lines 856-888
pro_average_top_steps_of(given) ==
    LET
        RECURSIVE pro_SumTopSteps(_, _, _)
        pro_SumTopSteps(v, i, n) ==
            IF i >= n THEN 0 ELSE At(v, i).step + pro_SumTopSteps(v, i + 1, n)
        pro_count_top_steps_of(v) == Min(pro_RANGE, Len(v))
    IN  IF pro_count_top_steps_of(given) > 0
        THEN RoundDiv(pro_SumTopSteps(given, 0, pro_count_top_steps_of(given)), pro_count_top_steps_of(given))
        ELSE 0

pro_days_until_2025_of(seconds) == TruncDiv(seconds, pro_SECONDS_PER_DAY)

pro_predicted_price_2025_of(baseline, avg, seconds) ==
    baseline + (avg * pro_days_until_2025_of(seconds))

pro_predicted_price_4w_of(baseline, avg) == baseline + (avg * pro_RANGE)

-----------------------------------------------------------------------------
(* Inputs *)

\* longest price series loaded
MaxLen == 366

\* largest number of display days given on the command line
MaxDisplayArg == 35

\* highest price, in whole units, of a row handed to the colouring alone
MaxZonePrice == 250
MaxMirrorDistance == 110
MaxRows == 31
MaxRuns == 2
MaxDates == 3

PriceSet == {0, 100 * Scale, 130 * Scale}

BasePrices == {0, 100 * Scale}

\* days from the run to the target date: after it, on it, before it
DaysAhead == {-1, 0, 1}

Lens == {0, 1, 2} \cup (363 .. MaxLen)

EarlyPos == {0, 1}

LatePos == {363, 364, MaxLen - 1}

\* n days at the price base, but v1 on day k1 and v2 on day k2; the date of
\* a day is its number, so dates ascend as ORDER BY Date ASC returns them
Series(n, base, k1, v1, k2, v2) ==
    [k \in 1 .. n |->
        [date |-> k - 1,
         price |-> IF k - 1 = k1 THEN v1 ELSE IF k - 1 = k2 THEN v2 ELSE base]]

Inputs ==
    {Series(n, base, k1, v1, k2, v2) :
        n \in Lens, base \in BasePrices, k1 \in EarlyPos, v1 \in PriceSet,
        k2 \in LatePos, v2 \in PriceSet}

\* argv[1]: absent, not a number, too large for an int, or a number
Args ==
    {[kind |-> "absent"], [kind |-> "invalid_argument"], [kind |-> "out_of_range"]}
    \cup {[kind |-> "int", value |-> n] : n \in {0, 32, 33, MaxDisplayArg}}

\* end_2025_t - now_c in seconds: whole days, and an hour less or more when
\* daylight saving time is in force on only one of the two dates and mktime
\* corrects the tm_isdst copied from the current time
SecondsUntil ==
    {d * SECONDS_PER_DAY + h : d \in DaysAhead, h \in {-3600, 0, 3600}}

\* the same when neither date is in daylight saving time
WholeDays == {d * SECONDS_PER_DAY : d \in DaysAhead}

\* the ticker before the request, and what gemini_get_bid_ask_last returns:
\* zeros when the request or the parsing of the reply fails, or a quote
NoTicker == [kind |-> "unread"]

Tickers ==
    {[kind |-> "read", bid |-> 0, ask |-> 0, last |-> 0],
     [kind |-> "read", bid |-> 129990, ask |-> 130010, last |-> 130000]}

\* argv[1] in the runs that go on to long series: absent or a number
MainArgs == {[kind |-> "absent"], [kind |-> "int", value |-> MaxDisplayArg]}

\* short series around the number of rows displayed, for the windowing
WindowLens == {0, 1, 32, 33, 34, MaxDisplayArg, MaxDisplayArg + 1}

WindowInputs ==
    {Series(n, base, 0, 130 * Scale, 1, 0) : n \in WindowLens, base \in {0, 100 * Scale}}

ZonePrices == {k * Scale : k \in 0 .. MaxZonePrice}

ZoneRows ==
    {[PiCycleData(0, p) EXCEPT !.median = m, !.ceiling = c, !.floor = f] :
        p \in ZonePrices, m \in {-100 * Scale, 0, 100 * Scale},
        c \in {0, 100 * Scale, 140 * Scale, 200 * Scale},
        f \in {0, 60 * Scale, 100 * Scale}}

\* one band and every price of ZonePrices in it, in ascending order of price
LadderMedians == {0, 50 * Scale, 100 * Scale, 200 * Scale}

LadderHalfBands == {-10 * Scale, 0, 40 * Scale, 100 * Scale}

Ladder(m, up, down) ==
    [k \in 1 .. (MaxZonePrice + 1) |->
        [PiCycleData(0, (k - 1) * Scale) EXCEPT
            !.median = m, !.ceiling = m + up, !.floor = m - down]]

Ladders ==
    {Ladder(m, up, down) :
        m \in LadderMedians, up \in LadderHalfBands, down \in LadderHalfBands}

\* pairs of rows with the same band whose prices lie the same distance above
\* and below the median
MirrorMedians == {-100 * Scale, 0, 100 * Scale}

MirrorHalfBands == {0, 40 * Scale, 100 * Scale}

MirrorDistances == {k * Scale : k \in 1 .. MaxMirrorDistance}

MirrorRow(p, m, c, f) ==
    [PiCycleData(0, p) EXCEPT !.median = m, !.ceiling = c, !.floor = f]

MirrorPairs ==
    {<<MirrorRow(m + d, m, m + up, m - down), MirrorRow(m - d, m, m + up, m - down)>> :
        m \in MirrorMedians, up \in MirrorHalfBands, down \in MirrorHalfBands,
        d \in MirrorDistances}

\* rows handed to display_public and prediction_target_step directly, most
\* recent first: the first row's step is a, the other rows up to the 30th
\* have step b and the rows after them step c; the first row's median is m
CallLens == {0, 1, 10, RANGE, MaxRows}

CallSteps == {-2 * Scale, 3 * Scale}

CallMedians == {0, 100 * Scale}

CallRows(n, a, b, c, m) ==
    [k \in 1 .. n |->
        [PiCycleData(n - k, 0) EXCEPT
            !.step = IF k = 1 THEN a ELSE IF k <= RANGE THEN b ELSE c,
            !.median = IF k = 1 THEN m ELSE 0]]

CallInputs ==
    {CallRows(n, a, b, c, m) :
        n \in CallLens, a \in CallSteps, b \in CallSteps, c \in CallSteps,
        m \in CallMedians}

\* series given to the engine when it is run more than once: two of the
\* longest length that part at index 364, and the first 365 points of one
EngineInputs ==
    {Series(MaxLen, 100 * Scale, 1, 130 * Scale, MaxLen - 1, 130 * Scale),
     Series(MaxLen, 100 * Scale, 1, 130 * Scale, FULL_AT, 130 * Scale),
     Series(WINDOW, 100 * Scale, 1, 130 * Scale, FULL_AT, 130 * Scale)}

-----------------------------------------------------------------------------
(* main *)

MIN_DISPLAY_DAYS == 33

Reverse(v) == [k \in 1 .. Len(v) |-> v[Len(v) + 1 - k]]

\* lines 449-459
\* mutant: the number parsed is used as it is
num_display_days_unclamped(arg, current) ==
    IF arg.kind = "int" THEN arg.value ELSE current

num_display_days_of(arg, current) ==
    IF arg.kind = "int"
    THEN IF arg.value < MIN_DISPLAY_DAYS THEN MIN_DISPLAY_DAYS ELSE arg.value
    ELSE current

\* lines 485-492
recent_reversed(v, n) ==
    Reverse(IF Len(v) > n THEN SubSeq(v, Len(v) - n + 1, Len(v)) ELSE v)

\* the process at its start: the globals as initialised at lines 28-31,
\* nothing loaded, computed or printed yet
Start ==
    /\ num_display_days = MIN_DISPLAY_DAYS
    /\ argv1 = [kind |-> "unread"]
    /\ ticker = NoTicker
    /\ klines = <<>>
    /\ pi_data = <<>>
    /\ row_colors = <<>>
    /\ divisors = {}
    /\ first_row_yearly_value = 0
    /\ first_row_baseline = 0
    /\ first_row_avg_price = 0
    /\ first_row_step = 0
    /\ average_top_steps = 0
    /\ predicted_price_2025 = 0
    /\ predicted_price_4w = 0
    /\ days_until_2025 = 0
    /\ exit_code = -1
    /\ runs = 0
    /\ prev_klines = <<>>
    /\ prev_pi_data = <<>>
    /\ seconds_until_2025 = 0
    /\ table = <<>>
    /\ latest = {}
    /\ pro_pi_data = <<>>
    /\ pro_row_colors = <<>>
    /\ pro_first_row = [yearly_value |-> 0, baseline |-> 0, avg_price |-> 0, step |-> 0]
    /\ pro_printed = [average_top_steps |-> 0, predicted_price_2025 |-> 0,
                      predicted_price_4w |-> 0]

Init ==
    /\ pc = "parse"
    /\ pi_data_reversed = <<>>
    /\ Start

globals == <<first_row_yearly_value, first_row_baseline, first_row_avg_price,
             first_row_step>>

printed == <<average_top_steps, predicted_price_2025, predicted_price_4w,
             days_until_2025, seconds_until_2025>>

history == <<runs, prev_klines, prev_pi_data>>

\* the database as the loader leaves it
database == <<table, latest>>

\* the state of the combined program 3-pi-cycle-pro
pro == <<pro_pi_data, pro_row_colors, pro_first_row, pro_printed>>

args == <<num_display_days, argv1>>

\* lines 449-459 with argv[1] drawn from a set of arguments
parse_args(from) ==
    /\ pc = "parse"
    /\ \E arg \in from :
        /\ argv1' = arg
        /\ num_display_days' = num_display_days_of(arg, num_display_days)
    /\ pc' = "fetch"
    /\ UNCHANGED <<database, pro, ticker, klines, pi_data, pi_data_reversed, row_colors, divisors,
                   globals, printed, exit_code, history>>

ParseArgs == parse_args(MainArgs)

\* line 473 with the rows of the table drawn from a set of series
fetch(from) ==
    /\ pc = "fetch"
    /\ klines' \in from
    /\ pc' = "fetched"
    /\ UNCHANGED <<database, pro, ticker, args, pi_data, pi_data_reversed, row_colors,
                   divisors, globals, printed, exit_code, history>>

FetchData == fetch(Inputs)

\* mutant: the run without data ends like a successful one
ExitNoDataSuccess ==
    /\ pc = "fetched"
    /\ klines = <<>>
    /\ exit_code' = 0
    /\ pc' = "done"
    /\ UNCHANGED <<database, pro, ticker, args, klines, pi_data, pi_data_reversed,
                   row_colors, divisors, globals, printed, history>>

ExitNoData ==
    /\ pc = "fetched"
    /\ klines = <<>>
    /\ exit_code' = 1
    /\ pc' = "done"
    /\ UNCHANGED <<database, pro, ticker, args, klines, pi_data, pi_data_reversed,
                   row_colors, divisors, globals, printed, history>>

PriceProjection ==
    /\ pc = "fetched"
    /\ klines # <<>>
    /\ pi_data' = price_projection(klines)
    /\ pc' = "calculate"
    /\ UNCHANGED <<database, pro, ticker, args, klines, pi_data_reversed, row_colors,
                   divisors, globals, printed, exit_code, history>>

AddCalculatedFields ==
    /\ pc = "calculate"
    /\ pi_data' = add_calculated_fields(pi_data)
    /\ divisors' = divisors \cup add_calculated_fields_divisions(pi_data)
    /\ runs' = runs + 1
    /\ pc' = "window"
    /\ UNCHANGED <<database, pro, ticker, args, klines, pi_data_reversed, row_colors,
                   globals, printed, exit_code, prev_klines, prev_pi_data>>

RecentReversed ==
    /\ pc = "window"
    /\ pi_data_reversed' = recent_reversed(pi_data, num_display_days)
    /\ pc' = "display"
    /\ UNCHANGED <<database, pro, ticker, args, klines, pi_data, row_colors, divisors,
                   globals, printed, exit_code, history>>

\* display_public(rows): the globals it sets, the colour of every row and
\* the divisions it executes
display_public(rows) ==
    /\ IF rows # <<>>
       THEN /\ first_row_yearly_value' = rows[1].weeks_52
            /\ first_row_baseline' = rows[1].median
            /\ first_row_step' = rows[1].step
            /\ first_row_avg_price' = rows[1].price
       ELSE UNCHANGED globals
    /\ row_colors' = [k \in 1 .. Len(rows) |-> row_color_of(rows[k])]
    /\ divisors' = divisors \cup UNION {row_color_divisions(rows[k]) : k \in 1 .. Len(rows)}

\* prediction_target_step(rows), run seconds before the target date: the
\* values it computes and prints
prediction_target_step(rows, seconds) ==
    LET avg == average_top_steps_of(rows)
    IN  /\ average_top_steps' = avg
        /\ seconds_until_2025' = seconds
        /\ days_until_2025' = days_until_2025_of(seconds)
        /\ predicted_price_2025' = predicted_price_2025_of(first_row_baseline, avg, seconds)
        /\ predicted_price_4w' = predicted_price_4w_of(first_row_baseline, avg)
        /\ divisors' = divisors \cup
                (IF count_top_steps_of(rows) > 0
                 THEN {Division("average_top_steps", count_top_steps_of(rows))}
                 ELSE {})

DisplayPublic ==
    /\ pc = "display"
    /\ display_public(pi_data_reversed)
    /\ pc' = "predict"
    /\ UNCHANGED <<database, pro, ticker, args, klines, pi_data, pi_data_reversed, printed,
                   exit_code, history>>

\* line 496: the ticker is requested after the table is printed; its value
\* is not used afterwards
GeminiGetBidAskLast ==
    /\ pc = "predict"
    /\ ticker = NoTicker
    /\ ticker' \in Tickers
    /\ UNCHANGED <<database, pro, pc, args, klines, pi_data, pi_data_reversed,
                   row_colors, divisors, globals, printed, exit_code, history>>

PredictionTargetStep ==
    /\ pc = "predict"
    /\ ticker # NoTicker
    /\ \E seconds \in WholeDays : prediction_target_step(pi_data_reversed, seconds)
    /\ exit_code' = 0
    /\ pc' = "done"
    /\ UNCHANGED <<database, pro, ticker, args, klines, pi_data, pi_data_reversed, row_colors,
                   globals, history>>

Next ==
    \/ ParseArgs
    \/ FetchData
    \/ ExitNoData
    \/ PriceProjection
    \/ AddCalculatedFields
    \/ RecentReversed
    \/ DisplayPublic
    \/ GeminiGetBidAskLast
    \/ PredictionTargetStep

Spec == Init /\ [][Next]_vars

\* display_public alone, on one row with any band
InitZone ==
    /\ pc = "display"
    /\ pi_data_reversed \in {<<row>> : row \in ZoneRows}
    /\ Start

NextZone == DisplayPublic

SpecZone == InitZone /\ [][NextZone]_vars

\* display_public alone, on the rows of one band at every price
InitLadder ==
    /\ pc = "display"
    /\ pi_data_reversed \in Ladders
    /\ Start

NextLadder == DisplayPublic

SpecLadder == InitLadder /\ [][NextLadder]_vars

\* main run with any argument on series about as long as the rows displayed
ParseAnyArgs == parse_args(Args)

FetchRecent == fetch(WindowInputs)

NextWindow ==
    \/ ParseAnyArgs
    \/ FetchRecent
    \/ ExitNoData
    \/ PriceProjection
    \/ AddCalculatedFields
    \/ RecentReversed
    \/ DisplayPublic
    \/ GeminiGetBidAskLast
    \/ PredictionTargetStep

SpecWindow == Init /\ [][NextWindow]_vars

\* main as a sequential program: the statement it is at is executed, and the
\* calls it makes (the ticker request among them) return
SpecTerminates == Init /\ [][NextWindow]_vars /\ WF_vars(NextWindow)

\* display_public applied to a pair of mirrored rows
InitMirror ==
    /\ pc = "display"
    /\ pi_data_reversed \in MirrorPairs
    /\ Start

NextMirror == DisplayPublic

SpecMirror == InitMirror /\ [][NextMirror]_vars

\* prediction_target_step called on rows of the caller's choosing, after
\* display_public has been called any number of times (or not at all) on
\* rows of the caller's choosing
InitCalls ==
    /\ pc = "calls"
    /\ pi_data_reversed = <<>>
    /\ Start

Calling == pc \in {"calls", "displayed"}

CallDisplayPublic ==
    /\ Calling
    /\ \E rows \in CallInputs :
        /\ pi_data_reversed' = rows
        /\ display_public(rows)
    /\ pc' = "displayed"
    /\ UNCHANGED <<database, pro, ticker, args, klines, pi_data, printed, exit_code, history>>

CallPredictionTargetStep ==
    /\ Calling
    /\ \E rows \in CallInputs, seconds \in SecondsUntil :
        /\ pi_data_reversed' = rows
        /\ prediction_target_step(rows, seconds)
    /\ pc' = "predicted"
    /\ UNCHANGED <<database, pro, ticker, args, klines, pi_data, row_colors, globals,
                   exit_code, history>>

NextCalls ==
    \/ CallDisplayPublic
    \/ CallPredictionTargetStep

SpecCalls == InitCalls /\ [][NextCalls]_vars

\* the engine run repeatedly in one process, in any interleaving with
\* display_public and prediction_target_step
InitEngine ==
    /\ pc = "engine"
    /\ pi_data_reversed = <<>>
    /\ Start

Engine == pc \in {"engine", "ran", "displayed", "predicted"}

\* price_projection followed by add_calculated_fields, as at lines 482-483
RunEngine ==
    /\ Engine
    /\ runs < MaxRuns
    /\ \E input \in EngineInputs :
        LET projected == price_projection(input)
        IN  /\ klines' = input
            /\ pi_data' = add_calculated_fields(projected)
            /\ divisors' = divisors \cup add_calculated_fields_divisions(projected)
    /\ prev_klines' = klines
    /\ prev_pi_data' = pi_data
    /\ runs' = runs + 1
    /\ pc' = "ran"
    /\ UNCHANGED <<database, pro, ticker, args, pi_data_reversed, row_colors, globals,
                   printed, exit_code>>

\* the most recent rows reversed and reported, as at lines 485-494
EngineDisplayPublic ==
    /\ Engine
    /\ pi_data_reversed' = recent_reversed(pi_data, num_display_days)
    /\ display_public(recent_reversed(pi_data, num_display_days))
    /\ pc' = "displayed"
    /\ UNCHANGED <<database, pro, ticker, args, klines, pi_data, printed, exit_code, history>>

EnginePredictionTargetStep ==
    /\ Engine
    /\ prediction_target_step(pi_data_reversed, SECONDS_PER_DAY)
    /\ pc' = "predicted"
    /\ UNCHANGED <<database, pro, ticker, args, klines, pi_data, pi_data_reversed, row_colors,
                   globals, exit_code, history>>

NextEngine ==
    \/ RunEngine
    \/ EngineDisplayPublic
    \/ EnginePredictionTargetStep

SpecEngine == InitEngine /\ [][NextEngine]_vars

-----------------------------------------------------------------------------
(* The loader, 1-get-binance-klines.cpp, and the table it fills *)

\* struct Kline of the loader
Kline(dt1, open, high, low, close, volume, num_trades, price) ==
    [dt1 |-> dt1, price |-> price, open |-> open, high |-> high, low |-> low,
     close |-> close, volume |-> volume, num_trades |-> num_trades]

\* price as get_klines_from_binance computes it: (high + low) / 2 rounded to
\* two decimals by std::round
price_of(high, low) == RoundDiv(high + low, 20) * 10

\* the dates for which Binance returns klines (a date string is modelled by
\* its day number, which orders as the string YYYY-MM-DD does)
LoaderDates == 1 .. MaxDates

\* two klines Binance may return for a date
Candle(d, v) ==
    IF v = 1
    THEN Kline(d, 100 * Scale, 110 * Scale, 90 * Scale, 105 * Scale, 1 * Scale, 10,
               price_of(110 * Scale, 90 * Scale))
    ELSE Kline(d, 105 * Scale, 130010, 100 * Scale, 120 * Scale, 2 * Scale, 20,
               price_of(130010, 100 * Scale))

Candles == {Candle(d, v) : d \in LoaderDates, v \in {1, 2}}

\* what get_klines_from_binance returns when it returns klines: one or two
\* of them, in any order and with any dates
Batches == {<<k>> : k \in Candles} \cup {<<k1, k2>> : k1 \in Candles, k2 \in Candles}

\* positions of the rows of t with date d
RowsOf(t, d) == {j \in 1 .. Len(t) : t[j].dt1 = d}

\* mutant: a row is added whether or not its date is there already
insert_always(t, k) == Append(t, k)

\* one execution of the INSERT ... ON CONFLICT(dt1) DO UPDATE statement
upsert(t, k) ==
    IF RowsOf(t, k.dt1) # {}
    THEN [j \in 1 .. Len(t) |-> IF t[j].dt1 = k.dt1 THEN k ELSE t[j]]
    ELSE Append(t, k)

RECURSIVE insert_klines_data(_, _)
insert_klines_data(t, batch) ==
    IF batch = <<>> THEN t
    ELSE insert_klines_data(upsert(t, Head(batch)), Tail(batch))

\* MAX(dt1) of a table that has rows
MaxDate(t) == CHOOSE d \in {t[j].dt1 : j \in 1 .. Len(t)} : \A j \in 1 .. Len(t) : t[j].dt1 <= d

update_current_date_price_with_close(t) ==
    [j \in 1 .. Len(t) |-> IF t[j].dt1 = MaxDate(t) THEN [t[j] EXCEPT !.price = t[j].close] ELSE t[j]]

\* the rows of t ordered by ascending date, rows of one date in rowid order
RECURSIVE OrderByDate(_)
OrderByDate(t) ==
    IF t = <<>> THEN <<>>
    ELSE LET first == CHOOSE j \in 1 .. Len(t) :
                        \A i \in 1 .. Len(t) :
                            t[j].dt1 < t[i].dt1 \/ (t[j].dt1 = t[i].dt1 /\ j <= i)
             rest  == [i \in 1 .. (Len(t) - 1) |-> IF i < first THEN t[i] ELSE t[i + 1]]
         IN  <<t[first]>> \o OrderByDate(rest)

\* fetch_data of the indicator: SELECT dt1 AS Date, price AS Price ... ORDER BY Date ASC
fetch_data(t) ==
    [j \in 1 .. Len(t) |-> [date |-> OrderByDate(t)[j].dt1, price |-> OrderByDate(t)[j].price]]

\* the kline most recently inserted for each date, after a batch
Recorded(l, batch) ==
    LET RECURSIVE rec(_, _)
        rec(s, b) ==
            IF b = <<>> THEN s
            ELSE rec({k \in s : k.dt1 # Head(b).dt1} \cup {Head(b)}, Tail(b))
    IN  rec(l, batch)

indicator == <<args, klines, pi_data, pi_data_reversed, row_colors, divisors,
               globals, printed, exit_code, history>>

InitLoader ==
    /\ pc = "loader"
    /\ pi_data_reversed = <<>>
    /\ Start

\* main of the loader up to create_klines_table
CreateKlinesTable ==
    /\ pc = "loader"
    /\ pc' = "created"
    /\ UNCHANGED <<database, pro, ticker, indicator>>

\* get_klines_from_binance returns klines and insert_klines_data stores them
InsertKlinesData ==
    /\ pc = "created"
    /\ \E batch \in Batches :
        /\ table' = insert_klines_data(table, batch)
        /\ latest' = Recorded(latest, batch)
    /\ pc' = "inserted"
    /\ UNCHANGED <<pro, ticker, indicator>>

\* get_klines_from_binance returns nothing: the database is left alone
NoKlines ==
    /\ pc = "created"
    /\ pc' = "loader"
    /\ UNCHANGED <<database, pro, ticker, indicator>>

\* update_current_date_price_with_close, then the loader closes and returns
UpdateCurrentDatePriceWithClose ==
    /\ pc = "inserted"
    /\ table' = update_current_date_price_with_close(table)
    /\ pc' = "loader"
    /\ UNCHANGED <<latest, pro, ticker, indicator>>

\* the indicator reads the table, at any point between the loader's
\* statements; it gets nothing when it cannot open or query the database
FetchTable ==
    /\ pc \in {"loader", "created", "inserted"}
    /\ klines' \in {fetch_data(table), <<>>}
    /\ pc' = "fetched"
    /\ UNCHANGED <<database, pro, ticker, args, pi_data, pi_data_reversed, row_colors, divisors,
                   globals, printed, exit_code, history>>

NextLoader ==
    \/ CreateKlinesTable
    \/ InsertKlinesData
    \/ NoKlines
    \/ UpdateCurrentDatePriceWithClose
    \/ FetchTable

SpecLoader == InitLoader /\ [][NextLoader]_vars

-----------------------------------------------------------------------------
(* The combined program run on the series the indicator was run on *)

\* series given to both programs
ProInputs ==
    {Series(n, 100 * Scale, k1, 130 * Scale, k2, v2) :
        n \in {2, WINDOW, MaxLen}, k1 \in EarlyPos, k2 \in LatePos, v2 \in {0, 130 * Scale}}

\* both programs past their arguments, about to read the same table
InitPro ==
    /\ pc = "fetch"
    /\ pi_data_reversed = <<>>
    /\ Start

FetchBoth == fetch(ProInputs)

\* main of the combined program, lines 968-969
ProEngine ==
    /\ pc = "done"
    /\ exit_code = 0
    /\ pro_pi_data' = pro_add_calculated_fields(pro_price_projection(klines))
    /\ pc' = "pro_window"
    /\ UNCHANGED <<database, ticker, indicator, pro_row_colors, pro_first_row,
                   pro_printed>>

\* lines 972-978
pro_recent_reversed(v, n) ==
    Reverse(IF Len(v) > n THEN SubSeq(v, Len(v) - n + 1, Len(v)) ELSE v)

\* display_public of the combined program, called at line 980
ProDisplayPublic ==
    /\ pc = "pro_window"
    /\ LET rows == pro_recent_reversed(pro_pi_data, num_display_days)
       IN  /\ pro_first_row' =
                IF rows # <<>>
                THEN [yearly_value |-> rows[1].weeks_52, baseline |-> rows[1].median,
                      avg_price |-> rows[1].price, step |-> rows[1].step]
                ELSE pro_first_row
           /\ pro_row_colors' = [k \in 1 .. Len(rows) |-> pro_row_color_of(rows[k])]
    /\ pc' = "pro_predict"
    /\ UNCHANGED <<database, ticker, indicator, pro_pi_data, pro_printed>>

\* prediction_target_step of the combined program, called at line 985 at
\* the time the indicator's was
ProPredictionTargetStep ==
    /\ pc = "pro_predict"
    /\ LET rows == pro_recent_reversed(pro_pi_data, num_display_days)
           avg  == pro_average_top_steps_of(rows)
       IN  pro_printed' =
                [average_top_steps |-> avg,
                 predicted_price_2025 |->
                    pro_predicted_price_2025_of(pro_first_row.baseline, avg,
                                                seconds_until_2025),
                 predicted_price_4w |->
                    pro_predicted_price_4w_of(pro_first_row.baseline, avg)]
    /\ pc' = "pro_done"
    /\ UNCHANGED <<database, ticker, indicator, pro_pi_data, pro_row_colors,
                   pro_first_row>>

NextPro ==
    \/ FetchBoth
    \/ PriceProjection
    \/ AddCalculatedFields
    \/ RecentReversed
    \/ DisplayPublic
    \/ GeminiGetBidAskLast
    \/ PredictionTargetStep
    \/ ProEngine
    \/ ProDisplayPublic
    \/ ProPredictionTargetStep

SpecPro == InitPro /\ [][NextPro]_vars

-----------------------------------------------------------------------------
(* Properties of the engine: price_projection and add_calculated_fields *)

\* the sum over x in S of times[x] * term[x]
RECURSIVE SumBy(_, _, _)
SumBy(S, times, term) ==
    IF S = {} THEN 0
    ELSE LET x == CHOOSE y \in S : TRUE
         IN  times[x] * term[x] + SumBy(S \ {x}, times, term)

\* f[lo] + ... + f[hi], adding each distinct value as often as it occurs
Sigma(f, lo, hi) ==
    LET Values == {f[j] : j \in lo .. hi}
        Times  == [x \in Values |-> Cardinality({j \in lo .. hi : f[j] = x})]
    IN  SumBy(Values, Times, [x \in Values |-> x])

Row(i) == At(pi_data, i)

Price(i) == At(klines, i).price

\* add_calculated_fields has returned
Calculated == pc \in {"window", "display", "predict", "done"} /\ pi_data # <<>>

\* the prices among the 365 ending at index i and how often each occurs;
\* their mean; their standard deviation about a mean m
WindowPrices(i) == {Price(j) : j \in (i - 364) .. i}

WindowTimes(i) ==
    [p \in WindowPrices(i) |-> Cardinality({j \in (i - 364) .. i : Price(j) = p})]

WindowMean(i) ==
    RoundDiv(SumBy(WindowPrices(i), WindowTimes(i), [p \in WindowPrices(i) |-> p]), 365)

WindowStd(i, m) ==
    FSqrt(RoundDiv(SumBy(WindowPrices(i), WindowTimes(i),
                         [p \in WindowPrices(i) |-> FMul(p - m, p - m)]), 365))

\* C1: for every index i >= 364, ma_365[i] is the sum of the 365 prices at
\* i-364..i divided by 365 and std_365[i] is their population standard
\* deviation: the square root of the sum of squared deviations from
\* ma_365[i] divided by 365
C1_WindowStatistics ==
    \A i \in Indices(pi_data) :
        i >= 364 =>
            /\ Row(i).ma_365 = WindowMean(i)
            /\ Row(i).std_365 = WindowStd(i, Row(i).ma_365)

\* a row past index 364 whose window holds different prices, so that the
\* window is not the whole series and the deviation is not zero
C1_Witness ==
    \E i \in Indices(pi_data) :
        /\ i >= 365
        /\ Row(i).std_365 > 0
        /\ Price(i - 365) # Price(i - 364)

\* C2: for every row i >= 364, ceiling is ma_365 plus two std_365, floor is
\* ma_365 and median is half the sum of ceiling and floor
C2_Band ==
    \A i \in Indices(pi_data) :
        i >= 364 =>
            /\ Row(i).ceiling = Row(i).ma_365 + 2 * Row(i).std_365
            /\ Row(i).floor = Row(i).ma_365
            /\ 2 * Row(i).median = Row(i).ceiling + Row(i).floor

C2_Witness ==
    \E i \in Indices(pi_data) :
        i >= 364 /\ Row(i).std_365 > 0 /\ Row(i).ceiling > Row(i).median

\* C3 as stated: for every row i >= 364, median equals ma_365 and ceiling
\* minus median equals two std_365
C3_MedianIsMean ==
    \A i \in Indices(pi_data) :
        i >= 364 =>
            /\ Row(i).median = Row(i).ma_365
            /\ Row(i).ceiling - Row(i).median = 2 * Row(i).std_365

\* C3 amended: for every row i >= 364, median equals ma_365 plus std_365 and
\* ceiling minus median equals std_365 (one deviation, not two); median
\* equals ma_365 only where std_365 is zero
C3_MedianIsMeanPlusStd ==
    \A i \in Indices(pi_data) :
        i >= 364 =>
            /\ Row(i).median = Row(i).ma_365 + Row(i).std_365
            /\ Row(i).ceiling - Row(i).median = Row(i).std_365
            /\ (Row(i).median = Row(i).ma_365 <=> Row(i).std_365 = 0)

C3_Witness ==
    \E i \in Indices(pi_data) :
        i >= 364 /\ Row(i).std_365 > 0 /\ Row(i).median > Row(i).ma_365

\* C4: every row with index i < 364 has ma_365, std_365, ceiling, floor,
\* median and weeks_52 equal to 0, whatever the series and up to the final
\* rows; so a series of at most 364 points has none of them computed
C4_UnsetBeforeWindow ==
    \A i \in Indices(pi_data) :
        i < 364 =>
            /\ Row(i).ma_365 = 0
            /\ Row(i).std_365 = 0
            /\ Row(i).ceiling = 0
            /\ Row(i).floor = 0
            /\ Row(i).median = 0
            /\ Row(i).weeks_52 = 0

\* the final rows of a series of exactly 364 points with a non-zero price
C4_Witness ==
    /\ Calculated
    /\ Len(pi_data) = 364
    /\ Row(363).price # 0
    /\ Row(363).change # 0

Changes(i) == [r \in (i - 363) .. i |-> Row(r).change]

\* C5: once add_calculated_fields has run, dynamic_step[i] and step[i] are
\* the mean of the 364 stored change values of rows i-363..i when those 364
\* rows all have a change (row 0 has none, so i >= 364), and 0 otherwise
C5_DynamicStep ==
    Calculated =>
        \A i \in Indices(pi_data) :
            /\ Row(i).step = Row(i).dynamic_step
            /\ Row(i).dynamic_step =
                   IF i - 363 >= 1
                   THEN RoundDiv(Sigma(Changes(i), i - 363, i), 364)
                   ELSE 0

\* a non-zero step at one row, and a row 363 left at 0 although its price
\* differs from the first
C5_Witness ==
    /\ Calculated
    /\ \E i \in Indices(pi_data) : i >= 364 /\ Row(i).dynamic_step # 0
    /\ Len(pi_data) > 363
    /\ Row(363).price # Row(0).price

\* C6: once add_calculated_fields has run, for every row i >= 1 change is
\* price[i] - price[i-1] and move is change / price[i-1] * 100 when
\* price[i-1] is not 0 and 0 when it is; the first row has change and move
\* 0; and no division by a zero previous price has been executed
C6_ChangeAndMove ==
    Calculated =>
        /\ \A i \in Indices(pi_data) :
            IF i >= 1
            THEN /\ Row(i).change = Row(i).price - Row(i - 1).price
                 /\ Row(i).move = IF Row(i - 1).price # 0
                                  THEN FDiv(Row(i).change, Row(i - 1).price) * 100
                                  ELSE 0
            ELSE Row(i).change = 0 /\ Row(i).move = 0
        /\ Division("move", 0) \notin divisors

\* a price after a zero price, and a move that is not zero
C6_Witness ==
    /\ Calculated
    /\ \E i \in Indices(pi_data) :
        i >= 1 /\ Row(i - 1).price = 0 /\ Row(i).price # 0
    /\ \E i \in Indices(pi_data) : Row(i).move # 0

\* C7: once add_calculated_fields has run, offset[i] is 0 whenever median[i]
\* is 0 and is (price[i] - median[i]) / median[i] * 100 otherwise
C7_Offset ==
    Calculated =>
        /\ \A i \in Indices(pi_data) :
            Row(i).offset = IF Row(i).median = 0
                            THEN 0
                            ELSE FDiv(Row(i).price - Row(i).median, Row(i).median) * 100
        /\ Division("offset", 0) \notin divisors

\* a row whose median is 0 under a price that is not, and a row whose
\* offset is not 0
C7_Witness ==
    /\ Calculated
    /\ \E i \in Indices(pi_data) : Row(i).median = 0 /\ Row(i).price # 0
    /\ \E i \in Indices(pi_data) : Row(i).offset # 0

\* C8: once add_calculated_fields has run, weeks_52[i] is
\* (price[i] - price[i-364]) / price[i-364] * 100 when i >= 364 and
\* price[i-364] is not 0, and 0 in every other case
C8_Weeks52 ==
    Calculated =>
        /\ \A i \in Indices(pi_data) :
            Row(i).weeks_52 =
                IF i >= 364 /\ Row(i - 364).price # 0
                THEN FDiv(Row(i).price - Row(i - 364).price, Row(i - 364).price) * 100
                ELSE 0
        /\ Division("weeks_52", 0) \notin divisors

\* a row past 364 whose price 364 days before is 0, and another with a
\* percentage that is not 0
C8_Witness ==
    /\ Calculated
    /\ \E i \in Indices(pi_data) :
        i >= 364 /\ Row(i - 364).price = 0 /\ Row(i).price # 0
    /\ \E i \in Indices(pi_data) : i >= 365 /\ Row(i).weeks_52 # 0

-----------------------------------------------------------------------------
(* Properties of the colouring in display_public *)

\* the colour that renders each zone
ZoneColor ==
    [z \in {"bright-high", "high", "mid-high", "near-median-above", "at-median",
            "near-median-below", "mid-low", "low", "bright-low"} |->
        CASE z = "bright-high"       -> "COLOR_BRIGHT_GREEN"
          [] z = "high"              -> "COLOR_GREEN"
          [] z = "mid-high"          -> "COLOR_DARK_GREEN"
          [] z = "near-median-above" -> "COLOR_YELLOW_GREEN"
          [] z = "at-median"         -> "COLOR_YELLOW"
          [] z = "near-median-below" -> "COLOR_YELLOW_RED"
          [] z = "mid-low"           -> "COLOR_DARK_RED"
          [] z = "low"               -> "COLOR_RED"
          [] z = "bright-low"        -> "COLOR_BRIGHT_RED"]

\* the rule of the zone classifier: within 2% of the median the three
\* near-median zones; beyond, the distance from the median as a fraction of
\* the half band on the price's side (0 when that half band is empty)
\* against the thresholds 0.575 and 0.29
ReferenceWithin(row) == Abs(row.price - row.median) <= FMul(20, row.median)

ReferenceFrac(distance, range) == IF range > 0 THEN FDiv(distance, range) ELSE 0

ReferenceZone(row) ==
    LET up   == ReferenceFrac(row.price - row.median, row.ceiling - row.median)
        down == ReferenceFrac(row.median - row.price, row.median - row.floor)
    IN  CASE ReferenceWithin(row) /\ row.price > row.median -> "near-median-above"
          [] ReferenceWithin(row) /\ row.price < row.median -> "near-median-below"
          [] ReferenceWithin(row) /\ row.price = row.median -> "at-median"
          [] ~ReferenceWithin(row) /\ row.price >= row.median /\ up >= 575 -> "bright-high"
          [] ~ReferenceWithin(row) /\ row.price >= row.median /\ up >= 290 /\ up < 575 -> "high"
          [] ~ReferenceWithin(row) /\ row.price >= row.median /\ up < 290 -> "mid-high"
          [] ~ReferenceWithin(row) /\ row.price < row.median /\ down >= 575 -> "bright-low"
          [] ~ReferenceWithin(row) /\ row.price < row.median /\ down >= 290 /\ down < 575 -> "low"
          [] ~ReferenceWithin(row) /\ row.price < row.median /\ down < 290 -> "mid-low"

Shown(k) == pi_data_reversed[k]

\* C9: the colour display_public gives every row is the colour of the zone
\* the reference rule assigns to it
C9_ZoneRule ==
    \A k \in 1 .. Len(row_colors) : row_colors[k] = ZoneColor[ReferenceZone(Shown(k))]

\* rows exactly on a line of the rule: 2% above the median, and 0.29 and
\* 0.575 of the way to the ceiling
C9_Witness ==
    /\ pc = "predict"
    /\ Len(row_colors) = 1
    /\ Shown(1).median = 100 * Scale
    /\ \/ Shown(1).price = 102 * Scale /\ row_colors[1] = "COLOR_YELLOW_GREEN"
       \/ Shown(1).price = 129 * Scale /\ Shown(1).ceiling = 200 * Scale
            /\ row_colors[1] = "COLOR_GREEN"
       \/ Shown(1).price = 123 * Scale /\ Shown(1).ceiling = 140 * Scale
            /\ row_colors[1] = "COLOR_BRIGHT_GREEN"

\* C10: the classifier is total: every row handed to display_public gets
\* one of the nine colours, whatever its price and band, no division by
\* zero is executed, and a row outside the near-median range whose half
\* band on the price's side is empty gets the faintest colour of that side
C10_ZoneTotal ==
    /\ pc \in {"predict", "done"} /\ exit_code # 1 =>
           Len(row_colors) = Len(pi_data_reversed)
    /\ \A k \in 1 .. Len(row_colors) :
        /\ row_colors[k] \in Colors
        /\ ~ReferenceWithin(Shown(k)) /\ Shown(k).price > Shown(k).median
              /\ Shown(k).ceiling = Shown(k).median
              => row_colors[k] = "COLOR_DARK_GREEN"
        /\ ~ReferenceWithin(Shown(k)) /\ Shown(k).price < Shown(k).median
              /\ Shown(k).median = Shown(k).floor
              => row_colors[k] = "COLOR_DARK_RED"
    /\ Division("percentage_above", 0) \notin divisors
    /\ Division("percentage_below", 0) \notin divisors

\* a coloured row well above a median that is also its ceiling
C10_Witness ==
    /\ pc = "predict"
    /\ Len(row_colors) = 1
    /\ Shown(1).ceiling = Shown(1).median
    /\ Shown(1).median # 0
    /\ Shown(1).price > 2 * Shown(1).median
    /\ row_colors[1] = "COLOR_DARK_GREEN"

-----------------------------------------------------------------------------
(* Symmetry of the colouring: mirrored prices *)

\* the zone on the other side of the median
Mirror ==
    [c \in Colors |->
        CASE c = ZoneColor["bright-high"] -> ZoneColor["bright-low"]
          [] c = ZoneColor["high"] -> ZoneColor["low"]
          [] c = ZoneColor["mid-high"] -> ZoneColor["mid-low"]
          [] c = ZoneColor["near-median-above"] -> ZoneColor["near-median-below"]
          [] c = ZoneColor["at-median"] -> ZoneColor["at-median"]
          [] c = ZoneColor["near-median-below"] -> ZoneColor["near-median-above"]
          [] c = ZoneColor["mid-low"] -> ZoneColor["mid-high"]
          [] c = ZoneColor["low"] -> ZoneColor["high"]
          [] c = ZoneColor["bright-low"] -> ZoneColor["bright-high"]]

\* the rows shown are a pair with one band and prices the same distance
\* above (first row) and below (second row) the median, and both are coloured
MirroredPairShown ==
    /\ pc = "predict"
    /\ Len(pi_data_reversed) = 2
    /\ Len(row_colors) = 2
    /\ Shown(1).median = Shown(2).median
    /\ Shown(1).ceiling = Shown(2).ceiling
    /\ Shown(1).floor = Shown(2).floor
    /\ Shown(1).price > Shown(1).median
    /\ Shown(1).price - Shown(1).median = Shown(2).median - Shown(2).price

\* C11 as stated: for a row with any median, floor and ceiling, prices the
\* same distance above and below the median (among them median + (median -
\* floor) and median - (median - floor)) are given mirror-image zones.
C11_Symmetric ==
    MirroredPairShown => row_colors[2] = Mirror[row_colors[1]]

\* C11 amended: when the band is symmetric about the median (ceiling - median
\* equals median - floor, as in every row the engine produces), prices the
\* same distance above and below the median are given mirror-image zones.
C11_SymmetricBand ==
    (/\ MirroredPairShown
     /\ Shown(1).ceiling - Shown(1).median = Shown(1).median - Shown(1).floor)
        => row_colors[2] = Mirror[row_colors[1]]

\* the pair median + (median - floor), median - (median - floor) of a
\* symmetric band has been coloured bright-high and bright-low
C11_Witness ==
    /\ MirroredPairShown
    /\ Shown(1).ceiling - Shown(1).median = Shown(1).median - Shown(1).floor
    /\ Shown(1).median > Shown(1).floor
    /\ Shown(1).price = Shown(1).median + (Shown(1).median - Shown(1).floor)
    /\ row_colors = <<ZoneColor["bright-high"], ZoneColor["bright-low"]>>

-----------------------------------------------------------------------------
(* The projector *)

\* main has printed its predictions
Predicted == pc = "done" /\ exit_code = 0

\* C12: the projector's baseline is the median of the most recent row, the
\* first of the rows it is given, and its two estimates are the baseline plus
\* the average step times the days left to the target date, and the baseline
\* plus the average step times 30.
C12_TwoEstimates ==
    Predicted =>
        /\ pi_data_reversed # <<>>
        /\ predicted_price_2025 = Shown(1).median + (average_top_steps * days_until_2025)
        /\ predicted_price_4w = Shown(1).median + (average_top_steps * 30)

\* predictions printed from a computed median with a drift and a day count
\* that make the two estimates differ from the baseline and from each other
C12_Witness ==
    /\ Predicted
    /\ Shown(1).median > 0
    /\ average_top_steps # 0
    /\ days_until_2025 # 0
    /\ predicted_price_2025 # predicted_price_4w
    /\ predicted_price_2025 # Shown(1).median

\* prediction_target_step has been called on pi_data_reversed
Projected == pc = "predicted"

\* the rows whose step enters the drift: the first min(30, L) of the L given
Averaged == 1 .. (IF Len(pi_data_reversed) < 30 THEN Len(pi_data_reversed) ELSE 30)

\* sum of the steps of the averaged rows
StepTotal ==
    LET total[k \in 0 .. 30] == IF k = 0 THEN 0 ELSE total[k - 1] + Shown(k).step
    IN  total[Cardinality(Averaged)]

\* C13: the drift is the mean of the step values of the first min(30, L)
\* rows given; with fewer than 30 rows it is the mean of exactly those L
\* values, and with no rows it is 0 and nothing is divided by zero.
C13_Drift ==
    Projected =>
        /\ Averaged # {} =>
            average_top_steps = RoundDiv(StepTotal, Cardinality(Averaged))
        /\ Averaged = {} => average_top_steps = 0
        /\ \A d \in divisors : d[1] = "average_top_steps" => d[2] # 0

\* ten rows with unequal steps have been averaged to a drift that is not zero
C13_Witness ==
    /\ Projected
    /\ Len(pi_data_reversed) = 10
    /\ Shown(1).step # Shown(2).step
    /\ average_top_steps # 0
    /\ Division("average_top_steps", 10) \in divisors

\* C14: the estimates of prediction_target_step are determined by the rows
\* it is given (and the day count) alone, whether or not display_public has
\* run before it and whatever rows display_public was last run on: they are
\* the first row's median plus the drift times the day count, and the first
\* row's median plus the drift times 30.
C14_Independent ==
    (Projected /\ pi_data_reversed # <<>>) =>
        /\ predicted_price_2025 =
                predicted_price_2025_of(Shown(1).median,
                                        average_top_steps_of(pi_data_reversed),
                                        days_until_2025 * SECONDS_PER_DAY)
        /\ predicted_price_4w =
                predicted_price_4w_of(Shown(1).median,
                                      average_top_steps_of(pi_data_reversed))

-----------------------------------------------------------------------------
(* The engine run more than once *)

\* the engine has run at least twice: klines and pi_data are the input and
\* the rows of the latest run, prev_klines and prev_pi_data of the run before
RanTwice == runs >= 2

\* C15: running the engine again on the same input, in the same process and
\* with display_public and prediction_target_step called in between in any
\* order, returns identical rows.
C15_Repeatable ==
    (RanTwice /\ prev_klines = klines) => prev_pi_data = pi_data

\* the engine has just run a second time on the same full-window input,
\* after a report set the globals and a prediction was printed
C15_Witness ==
    /\ RanTwice
    /\ pc = "ran"
    /\ prev_klines = klines
    /\ Len(klines) > FULL_AT
    /\ first_row_baseline # 0
    /\ first_row_step # 0
    /\ row_colors # <<>>
    /\ predicted_price_4w # 0
    /\ prev_pi_data = pi_data

\* positions (from 1) present in both inputs, where the two inputs differ,
\* and the positions before the first difference
Shared ==
    1 .. (IF Len(klines) < Len(prev_klines) THEN Len(klines) ELSE Len(prev_klines))

Differing == {j \in Shared : klines[j] # prev_klines[j]}

Agreed == {j \in Shared : \A d \in Differing : j < d}

\* C16: when two input series agree on indices 0..k, the rows 0..k the
\* engine returns for them are equal in every field, whatever follows index k.
C16_NoLookahead ==
    RanTwice => \A j \in Agreed : pi_data[j] = prev_pi_data[j]

\* two runs on inputs that agree up to a row with a full window (index 364)
\* and are not the same series, with a computed band in the agreed rows
C16_Witness ==
    /\ RanTwice
    /\ klines # prev_klines
    /\ FULL_AT + 1 \in Agreed
    /\ pi_data[FULL_AT + 1].median > 0
    /\ pi_data[FULL_AT + 1] = prev_pi_data[FULL_AT + 1]
    /\ pi_data # prev_pi_data

-----------------------------------------------------------------------------
(* Rows of the engine and their consumers *)

\* price_projection has returned
Projection == pc \in {"calculate", "window", "display", "predict"} \/ Predicted

\* C17: the engine returns exactly one row per input point, in the input's
\* order: as many rows as points, and row i carries the date and the price
\* of point i.
C17_RowPerPoint ==
    Projection =>
        /\ Len(pi_data) = Len(klines)
        /\ \A i \in Indices(klines) :
            /\ Row(i).date = At(klines, i).date
            /\ Row(i).price = At(klines, i).price

\* a series longer than the window with unequal prices has been projected
C17_Witness ==
    /\ pc = "window"
    /\ Len(klines) > WINDOW
    /\ Price(0) # Price(1)
    /\ Len(pi_data) = Len(klines)
    /\ Row(1).price = Price(1)

\* display_public has coloured the rows shown
Reported == pc = "predict" \/ Predicted

\* the rows shown whose index in the series is below 364: their band and
\* their step are the unset 0
Unset == {k \in 1 .. Len(pi_data_reversed) : Shown(k).date < FULL_AT}

\* C18: the zero of an unset field is never used as a reading. The colour of
\* a shown row with index below 364 does not come from comparing its price
\* with the median 0, so it is the same whatever the price; the projector's
\* baseline is not the median of such a row, and no such row's step enters
\* the drift.
C18_SentinelNotUsed ==
    /\ Reported =>
        \A k1 \in Unset, k2 \in Unset : row_colors[k1] = row_colors[k2]
    /\ Predicted =>
        /\ 1 \notin Unset
        /\ Averaged \cap Unset = {}

\* every point of the series has the price p
AllPrices(p) == \A i \in Indices(klines) : Price(i) = p

AboveMedian ==
    {ZoneColor[z] : z \in {"bright-high", "high", "mid-high", "near-median-above"}}

\* 364 days at 100.0 followed by one day at 130.0
StepUp ==
    /\ Len(klines) = 365
    /\ \A i \in 0 .. 363 : Price(i) = 100 * Scale
    /\ Price(364) = 130 * Scale

\* C20: whenever the 365 prices ending at row i are not all equal, ceiling >
\* median > floor strictly; after 364 days at 100.0 and one day at 130.0
\* the last row (index 364) has such a band and is coloured as above the
\* median.
C20_StrictBand ==
    /\ Calculated =>
        \A i \in Indices(pi_data) :
            (i >= 364 /\ Cardinality(WindowPrices(i)) >= 2) =>
                /\ Row(i).ceiling > Row(i).median
                /\ Row(i).median > Row(i).floor
    /\ (Reported /\ StepUp) =>
        /\ Shown(1).date = 364
        /\ Shown(1).ceiling > Shown(1).median
        /\ Shown(1).median > Shown(1).floor
        /\ row_colors[1] \in AboveMedian

\* the step-up series has been reported and its last row lies above the median
C20_Witness ==
    /\ Reported
    /\ StepUp
    /\ Shown(1).price > Shown(1).median
    /\ Shown(1).ceiling > Shown(1).median
    /\ Shown(1).median > Shown(1).floor
    /\ row_colors[1] \in AboveMedian

-----------------------------------------------------------------------------
(* The rows displayed *)

\* the number of days main displays for an argument
DisplayDays(arg) ==
    CASE arg.kind = "absent" -> 33
      [] arg.kind = "int" -> IF arg.value >= 33 THEN arg.value ELSE 33
      [] OTHER -> 33

\* the rows have been picked for display_public and prediction_target_step
Windowed == pc \in {"display", "predict"} \/ Predicted

\* C21: the sequence handed to display_public and prediction_target_step is
\* the last min(K, n) of the n engine rows, most recent first, where K is 33
\* by default, the argument when it parses to an integer >= 33, 33 when it
\* parses to less, and unchanged when it does not parse; K >= 33 at all times.
C21_RecentRows ==
    /\ num_display_days >= 33
    /\ pc # "parse" => num_display_days = DisplayDays(argv1)
    /\ Windowed =>
        LET n == Len(pi_data)
            m == IF num_display_days < n THEN num_display_days ELSE n
        IN  /\ Len(pi_data_reversed) = m
            /\ \A k \in 1 .. m : pi_data_reversed[k] = pi_data[n + 1 - k]

\* a series longer than the number asked for has been cut to it and reversed
C21_Witness ==
    /\ pc = "predict"
    /\ argv1.kind = "int"
    /\ argv1.value > 33
    /\ num_display_days = argv1.value
    /\ Len(pi_data) > num_display_days
    /\ Len(pi_data_reversed) = num_display_days
    /\ Shown(1).date = Len(pi_data) - 1
    /\ Shown(1).price # Shown(Len(pi_data_reversed)).price

-----------------------------------------------------------------------------
(* The table the loader fills *)

TableDates == {table[j].dt1 : j \in 1 .. Len(table)}

\* the kline most recently inserted for date d
Latest(d) == CHOOSE k \in latest : k.dt1 = d

\* at most one row per date, and only dates that were inserted
OneRowPerDate ==
    /\ \A d \in TableDates : Cardinality(RowsOf(table, d)) = 1
    /\ TableDates = {k.dt1 : k \in latest}

\* what fetch_data returned is in strictly ascending date order and, unless
\* the database could not be read, is the date and price of every row
FetchedInOrder ==
    pc = "fetched" =>
        /\ \A i \in 1 .. Len(klines), j \in 1 .. Len(klines) :
            i < j => klines[i].date < klines[j].date
        /\ klines # <<>> =>
            /\ Len(klines) = Len(table)
            /\ \A i \in 1 .. Len(klines) :
                \E j \in 1 .. Len(table) :
                    klines[i] = [date |-> table[j].dt1, price |-> table[j].price]

\* C22 as stated: the table holds at most one row per date, each row carries
\* the values of the kline most recently inserted for its date, and
\* fetch_data returns the rows in strictly ascending date order.
C22_LatestValues ==
    /\ OneRowPerDate
    /\ \A j \in 1 .. Len(table) : table[j] = Latest(table[j].dt1)
    /\ FetchedInOrder

\* C22 amended: the table holds at most one row per date; each row carries
\* the values of the kline most recently inserted for its date except that
\* its price is either that kline's price or its close, and when the loader
\* has finished the row of the latest date has its close as price;
\* fetch_data returns the rows in strictly ascending date order.
C22_LatestValuesButPrice ==
    /\ OneRowPerDate
    /\ \A j \in 1 .. Len(table) :
        LET k == Latest(table[j].dt1)
        IN  /\ [table[j] EXCEPT !.price = k.price] = k
            /\ table[j].price \in {k.price, k.close}
    /\ (pc = "loader" /\ table # <<>>) =>
        \A j \in RowsOf(table, MaxDate(table)) : table[j].price = table[j].close
    /\ FetchedInOrder

\* three dates inserted out of date order and one of them more than once
\* have been read back in date order, the latest with its close as price
C22_Witness ==
    /\ pc = "fetched"
    /\ Len(klines) = 3
    /\ table[1].dt1 > table[2].dt1
    /\ \E j \in 1 .. Len(table) :
        /\ table[j].dt1 = MaxDate(table)
        /\ table[j].price = table[j].close
        /\ table[j].price # Latest(table[j].dt1).price
    /\ klines[3].price = 120 * Scale
    /\ klines[1].date < klines[2].date

-----------------------------------------------------------------------------
(* Relations between the fields of a row *)

\* add_calculated_fields has just returned the rows of pi_data
Returned == pc = "window" /\ pi_data # <<>>

\* the price difference over 364 days at row i
YearDiff(i) == Price(i) - Price(i - 364)

\* C24: for every row i >= 364 the 364 changes summed for dynamic_step
\* collapse to price[i] - price[i-364], so 364 * dynamic_step[i] is that
\* difference (here: dynamic_step[i] is the difference divided by 364 and
\* rounded to the modelled precision); whenever price[i-364] > 0,
\* dynamic_step[i] and weeks_52[i] have the same sign and weeks_52[i] is
\* 364 * dynamic_step[i] / price[i-364] * 100 (within that rounding).
C24_Telescoping ==
    Returned =>
        \A i \in Indices(pi_data) : i >= 364 =>
            /\ Sigma(Changes(i), i - 363, i) = YearDiff(i)
            /\ Row(i).dynamic_step = RoundDiv(YearDiff(i), 364)
            /\ 2 * Abs((364 * Row(i).dynamic_step) - YearDiff(i)) <= 364
            /\ Price(i - 364) > 0 =>
                /\ Sign(Row(i).dynamic_step) = Sign(Row(i).weeks_52)
                /\ Row(i).weeks_52 = FDiv(YearDiff(i), Price(i - 364)) * 100
                /\ Abs(Row(i).weeks_52
                       - (FDiv(364 * Row(i).dynamic_step, Price(i - 364)) * 100))
                       <= (FDiv(182, Price(i - 364)) + 1) * 100

\* a row whose window holds changes of both signs that cancel, with a step
\* and a 52-week percentage that are not 0
C24_Witness ==
    /\ Returned
    /\ \E i \in Indices(pi_data) :
        /\ i >= 364
        /\ Price(i - 364) > 0
        /\ Row(i).dynamic_step > 0
        /\ Row(i).weeks_52 > 0
        /\ \E r \in (i - 363) .. i : Row(r).change < 0

\* C25: in every row the engine returns, whatever its index, floor <= median
\* <= ceiling and ceiling - median = median - floor = std_365: the two
\* half-bands of the colouring have the same width, which is not negative.
C25_HalfBands ==
    Returned =>
        \A i \in Indices(pi_data) :
            /\ Row(i).floor <= Row(i).median
            /\ Row(i).median <= Row(i).ceiling
            /\ Row(i).ceiling - Row(i).median = Row(i).std_365
            /\ Row(i).median - Row(i).floor = Row(i).std_365
            /\ range_above_of(Row(i)) = range_below_of(Row(i))
            /\ range_above_of(Row(i)) >= 0

\* rows with a band of positive width and rows with none
C25_Witness ==
    /\ Returned
    /\ \E i \in Indices(pi_data) : Row(i).std_365 > 0 /\ Row(i).median > Row(i).floor
    /\ \E i \in Indices(pi_data) : i >= 364 /\ Row(i).std_365 = 0 /\ Row(i).median > 0
    /\ \E i \in Indices(pi_data) : i < 364 /\ Row(i).ceiling = 0

-----------------------------------------------------------------------------
(* The zones in order of price *)

ZoneOrder ==
    <<"bright-low", "low", "mid-low", "near-median-below", "at-median",
      "near-median-above", "mid-high", "high", "bright-high">>

\* the place on the scale of the zone a colour renders
ZoneRank(color) == CHOOSE n \in 1 .. Len(ZoneOrder) : ZoneColor[ZoneOrder[n]] = color

\* C26: for a fixed band (median, ceiling, floor) with median >= 0 the zone
\* of a row never moves down the scale bright-low < low < mid-low <
\* near-median-below < at-median < near-median-above < mid-high < high <
\* bright-high when the price is raised.
C26_ZoneMonotone ==
    LET rows  == 1 .. Len(row_colors)
        rank  == [k \in rows |-> ZoneRank(row_colors[k])]
        price == [k \in rows |-> Shown(k).price]
        band  == [k \in rows |-> <<Shown(k).median, Shown(k).ceiling, Shown(k).floor>>]
    IN  \A j \in rows : band[j][1] >= 0 =>
            \A k \in rows :
                (price[j] <= price[k] /\ band[j] = band[k]) => rank[j] <= rank[k]

\* one band whose rows, at different prices, take every one of the nine zones
C26_Witness ==
    /\ pc = "predict"
    /\ Len(row_colors) > 1
    /\ Shown(1).median > 0
    /\ \A n \in 1 .. Len(ZoneOrder) :
        \E k \in 1 .. Len(row_colors) : ZoneRank(row_colors[k]) = n

-----------------------------------------------------------------------------
(* What each stage leaves alone *)

CalculatedFields == {"change", "move", "dynamic_step", "step", "offset", "weeks_52"}

ProjectedFields == {"date", "price", "ma_365", "std_365", "ceiling", "floor", "median"}

\* the step of main that runs add_calculated_fields
Calculating == pc = "calculate" /\ pc' = "window"

\* the steps of main that run display_public and prediction_target_step
Reporting == pc \in {"display", "predict"} /\ pc' \in {"predict", "done"}

\* C27: add_calculated_fields changes only change, move, dynamic_step, step,
\* offset and weeks_52: it leaves date, price, ma_365, std_365, ceiling,
\* floor and median of every row as price_projection produced them and
\* neither adds, removes nor reorders rows; display_public and
\* prediction_target_step modify no field of any row.
C27_Frame ==
    [][/\ Calculating =>
            /\ Len(pi_data') = Len(pi_data)
            /\ pi_data = price_projection(klines)
            /\ \A k \in 1 .. Len(pi_data) :
                /\ DOMAIN pi_data'[k] = CalculatedFields \cup ProjectedFields
                /\ \A f \in ProjectedFields : pi_data'[k][f] = pi_data[k][f]
       /\ Reporting =>
            /\ pi_data' = pi_data
            /\ pi_data_reversed' = pi_data_reversed]_vars

\* a finished run whose rows carry a band, an offset and a change, all
\* reported
C27_Witness ==
    /\ pc = "done"
    /\ row_colors # <<>>
    /\ pi_data = add_calculated_fields(price_projection(klines))
    /\ \E i \in Indices(pi_data) :
        /\ Row(i).std_365 > 0
        /\ Row(i).offset # 0
        /\ Row(i).change # 0
        /\ Row(i).weeks_52 # 0

-----------------------------------------------------------------------------
(* The two ways main ends *)

EngineRan == runs > 0 \/ pi_data # <<>>

DisplayRan == row_colors # <<>>

PredictionRan == \E d \in divisors : d[1] = "average_top_steps"

NoData == pc = "fetched" /\ klines = <<>>

SomeData == pc = "fetched" /\ klines # <<>>

-----------------------------------------------------------------------------
(* The day count of the fixed-date estimate *)

\* C29: the day count of the fixed-date estimate is the difference of the
\* target time and the current time in seconds divided by 86400 and truncated
\* toward zero; it is never clamped, so after the target date it is zero or
\* negative, and the estimate is the baseline plus the drift times that count,
\* an extrapolation backwards in time.
C29_DayCount ==
    Projected =>
        /\ Abs(days_until_2025) * 86400 <= Abs(seconds_until_2025)
        /\ Abs(seconds_until_2025) - (Abs(days_until_2025) * 86400) < 86400
        /\ days_until_2025 # 0 => Sign(days_until_2025) = Sign(seconds_until_2025)
        /\ seconds_until_2025 < 0 => days_until_2025 <= 0
        /\ seconds_until_2025 <= -86400 => days_until_2025 < 0
        /\ predicted_price_2025 =
                first_row_baseline + (average_top_steps * days_until_2025)

\* a day and an hour after the target time the count is -1 and the estimate
\* lies on the other side of the baseline than the drift points
C29_Witness ==
    /\ Projected
    /\ seconds_until_2025 = -90000
    /\ days_until_2025 = -1
    /\ average_top_steps > 0
    /\ predicted_price_2025 < first_row_baseline

-----------------------------------------------------------------------------
(* The engine of the two programs *)

ProEngineRan == pc \in {"pro_window", "pro_predict", "pro_done"}

ProDisplayed == pc \in {"pro_predict", "pro_done"}

\* C23: the two indicator programs share one engine: on every price series
\* price_projection followed by add_calculated_fields of
\* 2-pi-cycle-indicator.cpp and of the combined 3-pi-cycle-pro program give
\* the same rows, and on the same rows the colouring of the zones and the
\* formulas of the estimates give the same results.
C23_OneEngine ==
    /\ ProEngineRan =>
        /\ pro_pi_data = pi_data
        /\ \A k \in 1 .. Len(pi_data) :
            pro_row_color_of(pi_data[k]) = row_color_of(pi_data[k])
    /\ ProDisplayed =>
        /\ pro_row_colors = row_colors
        /\ pro_first_row = [yearly_value |-> first_row_yearly_value,
                            baseline |-> first_row_baseline,
                            avg_price |-> first_row_avg_price,
                            step |-> first_row_step]
    /\ pc = "pro_done" =>
        pro_printed = [average_top_steps |-> average_top_steps,
                       predicted_price_2025 |-> predicted_price_2025,
                       predicted_price_4w |-> predicted_price_4w]

\* both programs have run on a series of the longest length and printed rows
\* of more than one colour and estimates away from the baseline
C23_Witness ==
    /\ pc = "pro_done"
    /\ Len(pro_pi_data) = MaxLen
    /\ \E k \in 1 .. Len(pro_pi_data) : pro_pi_data[k].std_365 > 0
    /\ \E j, k \in 1 .. Len(pro_row_colors) : pro_row_colors[j] # pro_row_colors[k]
    /\ pro_printed.predicted_price_2025 # pro_first_row.baseline
    /\ pro_printed.predicted_price_4w # pro_printed.predicted_price_2025

====
